---- MODULE Spec2Model ----
(***************************************************************************)
(* Pass orchestration of devito/core/cpu.py: the fixed specialization      *)
(* strategies (CPU64NoopOperator, CPU64Operator, CPU64OpenMPOperator,      *)
(* Intel64FSGOperator, Intel64FSGOpenMPOperator) and the CustomOperator.   *)
(*                                                                         *)
(* The passes themselves (fuse, cire, cse, mpiize, ...) are external: a    *)
(* pass is modelled as an uninterpreted function, so the representation    *)
(* it returns is the term "input with the pass applied", i.e. the sequence *)
(* of pass names applied so far.  A pass invocation may return, raise a    *)
(* KeyError from inside its body, or raise some other error.               *)
(***************************************************************************)
EXTENDS Integers, Sequences, FiniteSets, TLC

VARIABLES strategy, mode, options, pc, i, clusters, graph, calls, error

vars == <<strategy, mode, options, pc, i, clusters, graph, calls, error>>

(***************************************************************************)
(* Bounds of the model.                                                    *)
(***************************************************************************)
\* Longest custom mode that is enumerated.
MaxModeLen == 2

\* Largest integer a caller supplies for an integer option.
MaxOpt == 1

(***************************************************************************)
(* Python values.  An integer option is <<n>>, None is <<>>.               *)
(***************************************************************************)
PyNone == <<>>
PyInt(n) == <<n>>

\* Python truthiness of an optional integer: None and 0 are falsy.
Truthy(v) == v # PyNone /\ v # PyInt(0)

\* Python's `a or b`.
Or(a, b) == IF Truthy(a) THEN a ELSE b

(***************************************************************************)
(* Class attributes of CPU64NoopOperator.                                  *)
(***************************************************************************)
BLOCK_LEVELS == 1
CIRE_REPEATS_INV == 1
CIRE_REPEATS_SOPS == 5
CIRE_MINCOST_INV == 50
CIRE_MINCOST_SOPS == 10

(***************************************************************************)
(* The strategies (classes) and their method resolution.                   *)
(***************************************************************************)
Strategies == {"Noop", "Base", "OpenMP", "FSG", "FSGOpenMP", "Custom"}

\* A vocabulary with a token that neither mapping holds.
_known_passes_Extra ==
    <<"blocking", "denormals", "optcomms", "openmp", "mpi",
      "simd", "prodders", "topofuse", "fuse", "factorize",
      "cire-sops", "cse", "lift", "opt-pows", "bogus">>

\* CustomOperator._known_passes
_known_passes == <<"blocking", "denormals", "optcomms", "openmp", "mpi",
                   "simd", "prodders", "topofuse", "fuse", "factorize",
                   "cire-sops", "cse", "lift", "opt-pows">>

KnownPasses == {_known_passes[k] : k \in DOMAIN _known_passes}

\* Tokens a caller may put in a custom mode: the vocabulary and one token
\* outside it.
Tokens == KnownPasses \cup {"bogus"}

\* as_tuple(kwargs['mode']) for every enumerated mode.
Modes == UNION {[1..n -> Tokens] : n \in 0..MaxModeLen}

Range(s) == {s[k] : k \in DOMAIN s}

(***************************************************************************)
(* Options.  `options` is a Python dict: a function from option names to   *)
(* values; 'min-storage' may be absent.                                    *)
(***************************************************************************)
ScalarCireKeys == {"cire-repeats-inv", "cire-repeats-sops",
                   "cire-mincost-inv", "cire-mincost-sops"}

\* options.get(key): None when the key is absent.  Only used for the
\* boolean-valued 'min-storage', for which None is as falsy as False.
GetFlag(o, key) == IF key \in DOMAIN o THEN o[key] ELSE FALSE

\* CPU64NoopOperator._normalize_kwargs: the options dict after the call.
CPU64NoopOperator_normalize_kwargs(o) ==
    [k \in ((DOMAIN o) \ ScalarCireKeys) \cup {"cire-repeats", "cire-mincost"} |->
        CASE k = "blocklevels" ->
                 Or(o["blocklevels"], PyInt(BLOCK_LEVELS))
          [] k = "cire-repeats" ->
                 [invariants |-> Or(o["cire-repeats-inv"], PyInt(CIRE_REPEATS_INV)),
                  sops |-> Or(o["cire-repeats-sops"], PyInt(CIRE_REPEATS_SOPS))]
          [] k = "cire-mincost" ->
                 [invariants |-> Or(o["cire-mincost-inv"], PyInt(CIRE_MINCOST_INV)),
                  sops |-> Or(o["cire-mincost-sops"], PyInt(CIRE_MINCOST_SOPS))]
          [] OTHER -> o[k]]

\* A check of the presence of 'min-storage' instead of its value.
Intel64FSGOperator_rejects_IfPresent(o) == "min-storage" \in DOMAIN o

\* Intel64FSGOperator._normalize_kwargs raises InvalidOperator after the
\* inherited normalization when 'min-storage' is truthy.
Intel64FSGOperator_rejects(o) == GetFlag(o, "min-storage")

\* Method resolution of _normalize_kwargs: only the FSG classes override
\* it; the result is the dict after the call and whether the call raised.
_normalize_kwargs(cls, o) ==
    LET n == CPU64NoopOperator_normalize_kwargs(o)
    IN  [options |-> n,
         raised |-> cls \in {"FSG", "FSGOpenMP"} /\ Intel64FSGOperator_rejects(n)]

(***************************************************************************)
(* Cluster pipelines of the fixed strategies: the callables in the order   *)
(* the method body calls them.  A callable is the sequence of external     *)
(* pass functions it applies (one, except CustomOperator's 'lift').        *)
(***************************************************************************)
\* CPU64NoopOperator inherits OperatorCore._specialize_clusters, which
\* applies no cluster optimization.
CPU64NoopOperator_specialize_clusters == <<>>

\* The body of CPU64Operator._specialize_clusters with CSE moved before
\* the factorization.
CPU64Operator_specialize_clusters_CseEarly ==
    << <<"fuse(toposort=True)">>,
       <<"cire('invariants')">>,
       <<"Lift">>,
       <<"Blocking">>,
       <<"extract_increments">>,
       <<"cire('sops')">>,
       <<"cse">>,
       <<"factorize">>,
       <<"optimize_pows">>,
       <<"fuse">>,
       <<"eliminate_arrays">> >>

CPU64Operator_specialize_clusters ==
    << <<"fuse(toposort=True)">>,
       <<"cire('invariants')">>,
       <<"Lift">>,
       <<"Blocking">>,
       <<"extract_increments">>,
       <<"cire('sops')">>,
       <<"factorize">>,
       <<"optimize_pows">>,
       <<"cse">>,
       <<"fuse">>,
       <<"eliminate_arrays">> >>

\* The body of Intel64FSGOperator._specialize_clusters with blocking left
\* where CPU64Operator has it.
Intel64FSGOperator_specialize_clusters_BlockingEarly ==
    << <<"fuse(toposort=True)">>,
       <<"cire('invariants')">>,
       <<"Lift">>,
       <<"Blocking">>,
       <<"extract_increments">>,
       <<"cire('sops')">>,
       <<"factorize">>,
       <<"optimize_pows">>,
       <<"cse">>,
       <<"fuse">>,
       <<"eliminate_arrays">> >>

Intel64FSGOperator_specialize_clusters ==
    << <<"fuse(toposort=True)">>,
       <<"cire('invariants')">>,
       <<"Lift">>,
       <<"extract_increments">>,
       <<"cire('sops')">>,
       <<"factorize">>,
       <<"optimize_pows">>,
       <<"cse">>,
       <<"fuse">>,
       <<"eliminate_arrays">>,
       <<"Blocking">> >>

\* Method resolution of _specialize_clusters for the fixed strategies.
_specialize_clusters(cls) ==
    CASE cls = "Noop" -> CPU64NoopOperator_specialize_clusters
      [] cls \in {"Base", "OpenMP"} -> CPU64Operator_specialize_clusters
      [] cls \in {"FSG", "FSGOpenMP"} -> Intel64FSGOperator_specialize_clusters

(***************************************************************************)
(* IET pipelines of the fixed strategies, for given options.               *)
(***************************************************************************)
If(c, s) == IF c THEN s ELSE <<>>

\* DataManager.place_definitions, then DataManager.place_casts.
SymbolDefinitions == << <<"place_definitions">>, <<"place_casts">> >>

\* The body of CPU64NoopOperator._specialize_iet with the two parallelism
\* blocks swapped.
CPU64NoopOperator_specialize_iet_OpenMPFirst(o) ==
    If(o["openmp"], << <<"make_parallel">> >>)
    \o If(o["mpi"], << <<"mpiize">> >>)
    \o SymbolDefinitions

CPU64NoopOperator_specialize_iet(o) ==
    If(o["mpi"], << <<"mpiize">> >>)
    \o If(o["openmp"], << <<"make_parallel">> >>)
    \o SymbolDefinitions

\* The body of CPU64Operator._specialize_iet with the `if options['mpi']`
\* test lost.
CPU64Operator_specialize_iet_AlwaysMpi(o) ==
    << <<"avoid_denormals">>, <<"optimize_halospots">>, <<"mpiize">>,
       <<"relax_incr_dimensions">>, <<"make_simd">>, <<"hoist_prodders">> >>
    \o SymbolDefinitions

CPU64Operator_specialize_iet(o) ==
    << <<"avoid_denormals">>, <<"optimize_halospots">> >>
    \o If(o["mpi"], << <<"mpiize">> >>)
    \o << <<"relax_incr_dimensions">>, <<"make_simd">>, <<"hoist_prodders">> >>
    \o SymbolDefinitions

\* The body of CPU64OpenMPOperator._specialize_iet with make_parallel
\* called after hoist_prodders.
CPU64OpenMPOperator_specialize_iet_ParallelLate(o) ==
    << <<"avoid_denormals">>, <<"optimize_halospots">> >>
    \o If(o["mpi"], << <<"mpiize">> >>)
    \o << <<"relax_incr_dimensions">>, <<"make_simd">>, <<"hoist_prodders">>,
          <<"make_parallel">> >>
    \o SymbolDefinitions

CPU64OpenMPOperator_specialize_iet(o) ==
    << <<"avoid_denormals">>, <<"optimize_halospots">> >>
    \o If(o["mpi"], << <<"mpiize">> >>)
    \o << <<"relax_incr_dimensions">>, <<"make_simd">>, <<"make_parallel">>,
          <<"hoist_prodders">> >>
    \o SymbolDefinitions

(***************************************************************************)
(* CustomOperator.                                                         *)
(***************************************************************************)
\* One mapping shared by both stages.
_make_clusters_passes_mapper_Shared ==
    ("blocking" :> <<"Blocking">>)
    @@ ("factorize" :> <<"factorize">>)
    @@ ("fuse" :> <<"fuse">>)
    @@ ("lift" :> <<"cire('invariants')", "Lift">>)
    @@ ("cire-sops" :> <<"cire('sops')">>)
    @@ ("cse" :> <<"cse">>)
    @@ ("opt-pows" :> <<"optimize_pows">>)
    @@ ("topofuse" :> <<"fuse(toposort=True)">>)
    @@ ("denormals" :> <<"avoid_denormals">>)
    @@ ("optcomms" :> <<"optimize_halospots">>)
    @@ ("openmp" :> <<"make_parallel">>)
    @@ ("mpi" :> <<"mpiize">>)
    @@ ("simd" :> <<"make_simd">>)
    @@ ("prodders" :> <<"hoist_prodders">>)

_make_clusters_passes_mapper ==
    ("blocking" :> <<"Blocking">>)
    @@ ("factorize" :> <<"factorize">>)
    @@ ("fuse" :> <<"fuse">>)
    @@ ("lift" :> <<"cire('invariants')", "Lift">>)
    @@ ("cire-sops" :> <<"cire('sops')">>)
    @@ ("cse" :> <<"cse">>)
    @@ ("opt-pows" :> <<"optimize_pows">>)
    @@ ("topofuse" :> <<"fuse(toposort=True)">>)

\* The IET mapping with relax_incr_dimensions under a key of its own.
_make_iet_passes_mapper_RelaxKey ==
    ("denormals" :> <<"avoid_denormals">>)
    @@ ("optcomms" :> <<"optimize_halospots">>)
    @@ ("relax" :> <<"relax_incr_dimensions">>)
    @@ ("openmp" :> <<"make_parallel">>)
    @@ ("mpi" :> <<"mpiize">>)
    @@ ("simd" :> <<"make_simd">>)
    @@ ("prodders" :> <<"hoist_prodders">>)

_make_iet_passes_mapper ==
    ("denormals" :> <<"avoid_denormals">>)
    @@ ("optcomms" :> <<"optimize_halospots">>)
    @@ ("blocking" :> <<"relax_incr_dimensions">>)
    @@ ("openmp" :> <<"make_parallel">>)
    @@ ("mpi" :> <<"mpiize">>)
    @@ ("simd" :> <<"make_simd">>)
    @@ ("prodders" :> <<"hoist_prodders">>)

\* A sanity check that looks at the first token only.
UnknownPasses_FirstOnly(passes) ==
    passes # <<>> /\ passes[1] \notin KnownPasses

\* The sanity check of CustomOperator._build.
UnknownPasses(passes) == \E k \in DOMAIN passes : passes[k] \notin KnownPasses

\* A force-call test with the membership test inverted.
ForceCall_IfNamed(name, passes, o) == name \in Range(passes) /\ o[name]

\* Whether CustomOperator._specialize_iet force-calls `name` after the loop.
ForceCall(name, passes, o) == name \notin Range(passes) /\ o[name]

\* The force-calls with the two `if` blocks swapped.
CustomForced_OpenMPFirst(passes, o) ==
    If(ForceCall("openmp", passes, o), << _make_iet_passes_mapper["openmp"] >>)
    \o If(ForceCall("mpi", passes, o), << _make_iet_passes_mapper["mpi"] >>)

\* The callables CustomOperator._specialize_iet force-calls after the loop.
CustomForced(passes, o) ==
    If(ForceCall("mpi", passes, o), << _make_iet_passes_mapper["mpi"] >>)
    \o If(ForceCall("openmp", passes, o), << _make_iet_passes_mapper["openmp"] >>)

\* _specialize_iet with Intel64FSGOpenMPOperator resolved to the method of
\* CPU64Operator, which its first base class inherits.
_specialize_iet_FSGOpenMPAsBase(cls, passes, o) ==
    CASE cls = "Noop" -> CPU64NoopOperator_specialize_iet(o)
      [] cls \in {"Base", "FSG", "FSGOpenMP"} -> CPU64Operator_specialize_iet(o)
      [] cls = "OpenMP" -> CPU64OpenMPOperator_specialize_iet(o)
      [] cls = "Custom" -> CustomForced(passes, o) \o SymbolDefinitions

\* _specialize_iet with CustomOperator's force-calls made after the symbol
\* placement.
_specialize_iet_ForcedLast(cls, passes, o) ==
    CASE cls = "Noop" -> CPU64NoopOperator_specialize_iet(o)
      [] cls \in {"Base", "FSG"} -> CPU64Operator_specialize_iet(o)
      [] cls \in {"OpenMP", "FSGOpenMP"} -> CPU64OpenMPOperator_specialize_iet(o)
      [] cls = "Custom" -> SymbolDefinitions \o CustomForced(passes, o)

\* What _specialize_iet calls in straight-line code: the whole body of a
\* fixed strategy, and the part after the loop of CustomOperator.
_specialize_iet(cls, passes, o) ==
    CASE cls = "Noop" -> CPU64NoopOperator_specialize_iet(o)
      [] cls \in {"Base", "FSG"} -> CPU64Operator_specialize_iet(o)
      [] cls \in {"OpenMP", "FSGOpenMP"} -> CPU64OpenMPOperator_specialize_iet(o)
      [] cls = "Custom" -> CustomForced(passes, o) \o SymbolDefinitions

\* How many of the straight-line calls of CustomOperator are force-calls.
NumForced(cls, passes, o) ==
    IF cls = "Custom" THEN Len(CustomForced(passes, o)) ELSE 0

(***************************************************************************)
(* Applying passes.                                                        *)
(***************************************************************************)
\* A pass handed the initial representation instead of the running one.
Apply_ToInitial(fns, repr) == fns

\* The representation a callable returns for input `repr`: its functions
\* applied in order.
Apply(fns, repr) == repr \o fns

\* What an invocation of an external pass may do: return, raise a KeyError
\* from inside its body, or raise any other error.  At most one invocation
\* of a build raises: once one has (and was swallowed), the others return.
Outcomes ==
    IF \E k \in DOMAIN calls : calls[k].outcome # "ok"
    THEN {"ok"}
    ELSE {"ok", "KeyError", "Error"}

\* One entry of the log of invocations.  `via` is "direct" for a call
\* written in a method body, "named" for a call made by CustomOperator's
\* loop for the token at position `at` of mode, "forced" for a force-call.
Call(stage, via, at, fns, outcome) ==
    [stage |-> stage, via |-> via, at |-> at, fns |-> fns, outcome |-> outcome]

(***************************************************************************)
(* Inputs of a build.                                                      *)
(***************************************************************************)
\* The options dict handed to _normalize_kwargs.
RawOptions(mpi, openmp, blocklevels, ri, rs, ci, cs) ==
    [k \in {"mpi", "openmp", "blocklevels"} \cup ScalarCireKeys |->
        CASE k = "mpi" -> mpi
          [] k = "openmp" -> openmp
          [] k = "blocklevels" -> blocklevels
          [] k = "cire-repeats-inv" -> ri
          [] k = "cire-repeats-sops" -> rs
          [] k = "cire-mincost-inv" -> ci
          [] k = "cire-mincost-sops" -> cs]

\* The dict `o` with 'min-storage' absent ("absent") or set to a boolean.
WithMinStorage(o, ms) ==
    IF ms = "absent" THEN o
    ELSE [k \in DOMAIN o \cup {"min-storage"} |->
             IF k = "min-storage" THEN ms = "True" ELSE o[k]]

\* The option dicts whose integer options are drawn from `nums` and whose
\* 'min-storage' is drawn from `mss`.
OptionDicts(nums, mss) ==
    {WithMinStorage(RawOptions(m, p, b, ri, rs, ci, cs), ms) :
        m \in BOOLEAN, p \in BOOLEAN, ms \in mss,
        b \in nums, ri \in nums, rs \in nums, ci \in nums, cs \in nums}

InitWith(modes, nums) ==
    /\ strategy \in Strategies
    /\ mode \in IF strategy = "Custom" THEN modes ELSE {<<>>}
    /\ options \in OptionDicts(nums, IF strategy = "Custom" THEN {"absent"}
                                     ELSE {"absent", "False", "True"})
    /\ pc = "normalize"
    /\ i = 1
    /\ clusters = <<>>
    /\ graph = <<>>
    /\ calls = <<>>
    /\ error = "none"

\* Builds of every strategy; the integer options are left unset, and
\* 'min-storage', which no method of CustomOperator reads, is left out of
\* the custom builds.
Init == InitWith(Modes, {PyNone})

(***************************************************************************)
(* The build.  The caller of the methods of cpu.py is the Operator base    *)
(* class: it normalizes the options, then runs _build, which specializes   *)
(* the clusters and then the IET.                                          *)
(***************************************************************************)
AfterNormalize == "build"
AfterSanityCheck(cls) == IF cls = "Custom" THEN "clusters_loop" ELSE "clusters"
AfterClusters(cls) == IF cls = "Custom" THEN "iet_loop" ELSE "iet"

Fail(kind) ==
    /\ pc' = "failed"
    /\ error' = kind

NormalizeKwargs ==
    /\ pc = "normalize"
    /\ LET r == _normalize_kwargs(strategy, options)
       IN  /\ options' = r.options
           /\ IF r.raised
              THEN Fail("InvalidOperator")
              ELSE pc' = AfterNormalize /\ UNCHANGED error
    /\ UNCHANGED <<strategy, mode, i, clusters, graph, calls>>

\* _build: CustomOperator's sanity check, then the inherited _build.
Build ==
    /\ pc = "build"
    /\ IF strategy = "Custom" /\ UnknownPasses(mode)
       THEN Fail("InvalidOperator")
       ELSE pc' = AfterSanityCheck(strategy) /\ UNCHANGED error
    /\ UNCHANGED <<strategy, mode, options, i, clusters, graph, calls>>

\* One call of the body of a fixed strategy's _specialize_clusters.
ClustersCall ==
    /\ pc = "clusters"
    /\ i <= Len(_specialize_clusters(strategy))
    /\ LET fns == _specialize_clusters(strategy)[i]
       IN  \E out \in Outcomes :
             /\ calls' = Append(calls, Call("clusters", "direct", 0, fns, out))
             /\ IF out = "ok"
                THEN /\ clusters' = Apply(fns, clusters)
                     /\ i' = i + 1
                     /\ UNCHANGED <<pc, error>>
                ELSE /\ Fail(out)
                     /\ UNCHANGED <<clusters, i>>
    /\ UNCHANGED <<strategy, mode, options, graph>>

\* `return clusters` of a fixed strategy.
ClustersReturn ==
    /\ pc = "clusters"
    /\ i > Len(_specialize_clusters(strategy))
    /\ pc' = AfterClusters(strategy)
    /\ i' = 1
    /\ UNCHANGED <<strategy, mode, options, clusters, graph, calls, error>>

\* One iteration of the loop of CustomOperator._specialize_clusters.
CustomClustersIter ==
    /\ pc = "clusters_loop"
    /\ i <= Len(mode)
    /\ LET passes_mapper == _make_clusters_passes_mapper
       IN  IF mode[i] \in DOMAIN passes_mapper
           THEN \E out \in Outcomes :
                  /\ calls' = Append(calls, Call("clusters", "named", i,
                                                 passes_mapper[mode[i]], out))
                  /\ CASE out = "ok" ->
                            /\ clusters' = Apply(passes_mapper[mode[i]], clusters)
                            /\ i' = i + 1
                            /\ UNCHANGED <<pc, error>>
                       [] out = "KeyError" ->
                            \* caught by `except KeyError: pass`
                            /\ i' = i + 1
                            /\ UNCHANGED <<clusters, pc, error>>
                       [] out = "Error" ->
                            /\ Fail(out)
                            /\ UNCHANGED <<clusters, i>>
           ELSE \* the lookup raises KeyError, which is caught
                /\ i' = i + 1
                /\ UNCHANGED <<clusters, calls, pc, error>>
    /\ UNCHANGED <<strategy, mode, options, graph>>

\* `return clusters` of CustomOperator.
CustomClustersReturn ==
    /\ pc = "clusters_loop"
    /\ i > Len(mode)
    /\ pc' = AfterClusters(strategy)
    /\ i' = 1
    /\ UNCHANGED <<strategy, mode, options, clusters, graph, calls, error>>

\* One iteration of the loop of CustomOperator._specialize_iet.
CustomIetIter ==
    /\ pc = "iet_loop"
    /\ i <= Len(mode)
    /\ LET passes_mapper == _make_iet_passes_mapper
       IN  IF mode[i] \in DOMAIN passes_mapper
           THEN \E out \in Outcomes :
                  /\ calls' = Append(calls, Call("iet", "named", i,
                                                 passes_mapper[mode[i]], out))
                  /\ CASE out = "ok" ->
                            /\ graph' = Apply(passes_mapper[mode[i]], graph)
                            /\ i' = i + 1
                            /\ UNCHANGED <<pc, error>>
                       [] out = "KeyError" ->
                            \* caught by `except KeyError: pass`
                            /\ i' = i + 1
                            /\ UNCHANGED <<graph, pc, error>>
                       [] out = "Error" ->
                            /\ Fail(out)
                            /\ UNCHANGED <<graph, i>>
           ELSE \* the lookup raises KeyError, which is caught
                /\ i' = i + 1
                /\ UNCHANGED <<graph, calls, pc, error>>
    /\ UNCHANGED <<strategy, mode, options, clusters>>

\* The loop of CustomOperator._specialize_iet is over.
CustomIetLoopExit ==
    /\ pc = "iet_loop"
    /\ i > Len(mode)
    /\ pc' = "iet"
    /\ i' = 1
    /\ UNCHANGED <<strategy, mode, options, clusters, graph, calls, error>>

\* One straight-line call of _specialize_iet.
IetCall ==
    /\ pc = "iet"
    /\ i <= Len(_specialize_iet(strategy, mode, options))
    /\ LET fns == _specialize_iet(strategy, mode, options)[i]
           via == IF i <= NumForced(strategy, mode, options)
                  THEN "forced" ELSE "direct"
       IN  \E out \in Outcomes :
             /\ calls' = Append(calls, Call("iet", via, 0, fns, out))
             /\ IF out = "ok"
                THEN /\ graph' = Apply(fns, graph)
                     /\ i' = i + 1
                     /\ UNCHANGED <<pc, error>>
                ELSE /\ Fail(out)
                     /\ UNCHANGED <<graph, i>>
    /\ UNCHANGED <<strategy, mode, options, clusters>>

\* `return graph`.
IetReturn ==
    /\ pc = "iet"
    /\ i > Len(_specialize_iet(strategy, mode, options))
    /\ pc' = "done"
    /\ UNCHANGED <<strategy, mode, options, i, clusters, graph, calls, error>>

Next ==
    \/ NormalizeKwargs
    \/ Build
    \/ ClustersCall
    \/ ClustersReturn
    \/ CustomClustersIter
    \/ CustomClustersReturn
    \/ CustomIetIter
    \/ CustomIetLoopExit
    \/ IetCall
    \/ IetReturn

Spec == Init /\ [][Next]_vars

(***************************************************************************)
(* The option normalization alone, on every combination of unset and       *)
(* supplied integer options (0 included).                                  *)
(***************************************************************************)
NumInputs == {PyNone} \cup {PyInt(n) : n \in 0..MaxOpt}

InitNorm == InitWith({<<>>}, NumInputs)

SpecNorm == InitNorm /\ [][NormalizeKwargs]_vars

(***************************************************************************)
(* Vocabulary of the properties.                                           *)
(***************************************************************************)
\* The positions of the log at which `fn` was invoked.
Invocations(fn) == {k \in DOMAIN calls : \E j \in DOMAIN calls[k].fns :
                                            calls[k].fns[j] = fn}

NumInvocations(fn) == Cardinality(Invocations(fn))

\* How often `tok` occurs in mode.
Occurrences(tok) == Cardinality({k \in DOMAIN mode : mode[k] = tok})

IsCustom == strategy = "Custom"
IsFSG == strategy \in {"FSG", "FSGOpenMP"}

\* mode holds a token outside the 14-token vocabulary.
HasUnknownToken ==
    \E k \in DOMAIN mode :
        mode[k] \notin {"blocking", "denormals", "optcomms", "openmp", "mpi",
                        "simd", "prodders", "topofuse", "fuse", "factorize",
                        "cire-sops", "cse", "lift", "opt-pows"}

MinStorageRequested == "min-storage" \in DOMAIN options /\ options["min-storage"]

NoPassInvoked == calls = <<>> /\ clusters = <<>> /\ graph = <<>>

(***************************************************************************)
(* C1 Vocabulary gate: a CustomOperator build whose mode holds a token     *)
(* outside the known-passes vocabulary, at any position, fails with        *)
(* InvalidOperator in _build, and no pass is ever invoked: no cluster      *)
(* pass, no IET pass, no force-call and no symbol placement.               *)
(***************************************************************************)
C1_VocabularyGate ==
    (IsCustom /\ HasUnknownToken) =>
        /\ NoPassInvoked
        /\ pc \in {"normalize", "build", "failed"}
        /\ pc = "failed" => error = "InvalidOperator"

\* An unknown token after a valid one has been rejected by _build.
C1_Witness ==
    /\ IsCustom
    /\ Len(mode) = 2 /\ mode[1] = "cse" /\ mode[2] = "bogus"
    /\ pc = "failed" /\ error = "InvalidOperator"
    /\ "cire-repeats" \in DOMAIN options

\* The two halves of C2: what holds of every state of a rejected build, and
\* what the normalization step of an FSG build does.
C2_RejectedBeforeAnyPass ==
    (IsFSG /\ MinStorageRequested) =>
        /\ NoPassInvoked
        /\ pc \in {"normalize", "failed"}
        /\ pc = "failed" => error = "InvalidOperator"

C2_NormalizeStep ==
    (pc = "normalize" /\ IsFSG) =>
        IF MinStorageRequested
        THEN pc' = "failed" /\ error' = "InvalidOperator"
        ELSE /\ pc' = "build" /\ error' = "none"
             /\ options' = _normalize_kwargs("Base", options).options
             /\ ~ _normalize_kwargs("Base", options).raised

(***************************************************************************)
(* C2 Mutual exclusion: a build of FSG or FSG+OpenMP whose options request *)
(* min-storage fails with InvalidOperator in _normalize_kwargs, before any *)
(* pass is invoked; with min-storage absent or falsy the normalization     *)
(* succeeds and leaves the options the Base strategy's normalization       *)
(* would leave.                                                            *)
(***************************************************************************)
C2_MutualExclusion == [] C2_RejectedBeforeAnyPass /\ [][C2_NormalizeStep]_vars

\* FSG+OpenMP has rejected min-storage.
C2_Witness ==
    /\ strategy = "FSGOpenMP"
    /\ MinStorageRequested
    /\ pc = "failed" /\ error = "InvalidOperator"

(***************************************************************************)
(* C3 Pass failure aborts the pipeline: a pass invocation that raised (any *)
(* error, a KeyError from inside the pass body included) is the last       *)
(* invocation of the build, the build has failed, and the error it failed  *)
(* with is the one the pass raised.                                        *)
(***************************************************************************)
C3_PassFailureAborts ==
    \A k \in DOMAIN calls :
        calls[k].outcome # "ok" =>
            /\ k = Len(calls)
            /\ pc = "failed"
            /\ error = calls[k].outcome

(***************************************************************************)
(* C4 MPI injection.  As claimed: in every strategy, Custom with a mode    *)
(* naming 'mpi' included, mpiize is invoked at most once, and never when   *)
(* the mpi option is falsy.                                                *)
(***************************************************************************)
C4_MpiAtMostOnce ==
    /\ NumInvocations("mpiize") <= 1
    /\ ~ options["mpi"] => NumInvocations("mpiize") = 0

(***************************************************************************)
(* C4 as amended: in the fixed strategies mpiize is invoked at most once,  *)
(* and never when the mpi option is falsy; CustomOperator invokes it once  *)
(* per occurrence of 'mpi' in mode whatever the mpi option is, and, when   *)
(* mode does not name 'mpi', exactly once if the mpi option is set and     *)
(* never if it is falsy.                                                   *)
(***************************************************************************)
C4_MpiInjection ==
    LET expected == IF IsCustom
                    THEN IF Occurrences("mpi") > 0 THEN Occurrences("mpi")
                         ELSE IF options["mpi"] THEN 1 ELSE 0
                    ELSE IF options["mpi"] THEN 1 ELSE 0
    IN  /\ NumInvocations("mpiize") <= expected
        /\ pc = "done" => NumInvocations("mpiize") = expected
        /\ ~ IsCustom => NumInvocations("mpiize") <= 1

\* A completed custom build that named 'mpi' twice with the mpi option off.
C4_Witness ==
    /\ IsCustom /\ pc = "done"
    /\ mode = <<"mpi", "mpi">>
    /\ ~ options["mpi"]
    /\ NumInvocations("mpiize") = 2

(***************************************************************************)
(* C5 Forced parallelism: a completed _specialize_iet of CustomOperator    *)
(* has invoked mpiize at least once if the mpi option is set and           *)
(* make_parallel at least once if the openmp option is set, whatever the   *)
(* (valid) mode; with an empty mode, mpiize is never invoked when mpi is   *)
(* falsy and make_parallel never when openmp is falsy.                     *)
(***************************************************************************)
C5_ForcedParallelism ==
    IsCustom =>
        /\ (pc = "done" /\ options["mpi"]) => NumInvocations("mpiize") >= 1
        /\ (pc = "done" /\ options["openmp"]) => NumInvocations("make_parallel") >= 1
        /\ (mode = <<>> /\ ~ options["mpi"]) => NumInvocations("mpiize") = 0
        /\ (mode = <<>> /\ ~ options["openmp"]) => NumInvocations("make_parallel") = 0

\* A completed custom build whose mode names neither 'mpi' nor 'openmp',
\* with both options set.
C5_Witness ==
    /\ IsCustom /\ pc = "done"
    /\ mode = <<"cse", "fuse">>
    /\ options["mpi"] /\ options["openmp"]
    /\ NumInvocations("mpiize") = 1 /\ NumInvocations("make_parallel") = 1

(***************************************************************************)
(* More vocabulary: the log of one stage.                                  *)
(***************************************************************************)
StageCalls(stage) == SelectSeq(calls, LAMBDA c : c.stage = stage)

NamedCalls(stage) ==
    SelectSeq(calls, LAMBDA c : c.stage = stage /\ c.via = "named")

\* The callables of a log, in order.
FnsOf(log) == [k \in DOMAIN log |-> log[k].fns]

RECURSIVE Flatten(_)
Flatten(ss) == IF ss = <<>> THEN <<>> ELSE Head(ss) \o Flatten(Tail(ss))

\* The pass functions that returned, in order.
Returned(stage) ==
    Flatten(FnsOf(SelectSeq(calls, LAMBDA c : c.stage = stage /\ c.outcome = "ok")))

\* The positions k <= upto of mode whose token is in `keys`, in order.
RECURSIVE PositionsIn(_, _)
PositionsIn(keys, upto) ==
    IF upto = 0 THEN <<>>
    ELSE PositionsIn(keys, upto - 1)
         \o (IF mode[upto] \in keys THEN <<upto>> ELSE <<>>)

\* The tokens of each stage's mapping, as the claims list them.
ClusterTokens == {"blocking", "factorize", "fuse", "lift", "cire-sops", "cse",
                  "opt-pows", "topofuse"}
IetTokens == {"denormals", "optcomms", "blocking", "openmp", "mpi", "simd",
              "prodders"}

\* The cluster stage has returned.
ClustersReturned == pc \in {"iet_loop", "iet", "done"}

(***************************************************************************)
(* C6 Symbol-placement terminality: in every strategy a completed          *)
(* _specialize_iet has invoked place_definitions exactly once and then     *)
(* place_casts exactly once, as the last two invocations of the build; no  *)
(* pass, named, forced or direct, is ever invoked after place_casts, and   *)
(* only place_casts after place_definitions.                               *)
(***************************************************************************)
C6_SymbolPlacementLast ==
    /\ \A k \in Invocations("place_casts") : k = Len(calls)
    /\ \A k \in Invocations("place_definitions") :
           /\ k >= Len(calls) - 1
           /\ k < Len(calls) => calls[k + 1].fns = <<"place_casts">>
    /\ pc = "done" =>
           /\ Len(calls) >= 2
           /\ calls[Len(calls) - 1].fns = <<"place_definitions">>
           /\ calls[Len(calls)].fns = <<"place_casts">>
           /\ NumInvocations("place_definitions") = 1
           /\ NumInvocations("place_casts") = 1
           /\ Len(graph) >= 2
           /\ SubSeq(graph, Len(graph) - 1, Len(graph))
                  = <<"place_definitions", "place_casts">>

\* A completed custom build with a named IET pass and both force-calls.
C6_Witness ==
    /\ IsCustom /\ pc = "done"
    /\ mode = <<"simd">>
    /\ options["mpi"] /\ options["openmp"]
    /\ Len(calls) = 5
    /\ calls[2].via = "forced" /\ calls[3].via = "forced"

\* One stage of C7: `keys` are the tokens of the stage's mapping, `loop` the
\* stage's loop and `after` what follows it.
C7_StageOrder(stage, keys, mapper, loop, after) ==
    LET log == NamedCalls(stage)
        done == IF pc = loop THEN i - 1
                ELSE IF pc \in after THEN Len(mode) ELSE 0
    IN  /\ \A k \in DOMAIN log :
              /\ log[k].at \in DOMAIN mode
              /\ mode[log[k].at] \in keys
              /\ log[k].fns = mapper[mode[log[k].at]]
              /\ k > 1 => log[k - 1].at < log[k].at
        /\ pc \in {loop} \cup after =>
              [k \in DOMAIN log |-> log[k].at] = PositionsIn(keys, done)

(***************************************************************************)
(* C7 Ordering fidelity: in each stage of CustomOperator the named calls   *)
(* are those of the mode tokens the stage's mapping holds, in the order of *)
(* mode and once per occurrence (no reordering, no deduplication), each    *)
(* call being the mapped pass of its token; and the cluster sequence is    *)
(* threaded: the running clusters are the passes that returned, applied in *)
(* the order of their invocation.                                          *)
(***************************************************************************)
C7_OrderingFidelity ==
    IsCustom =>
        /\ C7_StageOrder("clusters", ClusterTokens, _make_clusters_passes_mapper,
                         "clusters_loop", {"iet_loop", "iet", "done"})
        /\ C7_StageOrder("iet", IetTokens, _make_iet_passes_mapper,
                         "iet_loop", {"iet", "done"})
        /\ clusters = Returned("clusters")

\* mode = ('cse', 'fuse'): both have run, CSE first, fuse on CSE's output.
C7_Witness ==
    /\ IsCustom /\ ClustersReturned
    /\ mode = <<"cse", "fuse">>
    /\ FnsOf(StageCalls("clusters")) = << <<"cse">>, <<"fuse">> >>
    /\ clusters = <<"cse", "fuse">>

\* The two halves of C8: what an iteration on an unmapped token does, and
\* what holds of every state of a build whose mode is IET-only.
C8_SkipStep ==
    /\ (pc = "clusters_loop" /\ i <= Len(mode) /\ mode[i] \in KnownPasses \ ClusterTokens)
           => (pc' = pc /\ i' = i + 1 /\ UNCHANGED <<clusters, graph, calls, error>>)
    /\ (pc = "iet_loop" /\ i <= Len(mode) /\ mode[i] \in KnownPasses \ IetTokens)
           => (pc' = pc /\ i' = i + 1 /\ UNCHANGED <<clusters, graph, calls, error>>)

C8_IetOnlyMode ==
    (IsCustom /\ Range(mode) \subseteq IetTokens \ ClusterTokens) =>
        /\ StageCalls("clusters") = <<>>
        /\ clusters = <<>>
        /\ pc \in {"normalize", "build", "clusters_loop"} => error = "none"
        /\ pc = "failed" => StageCalls("iet") # <<>>

(***************************************************************************)
(* C8 Stage isolation skip: in CustomOperator a token that the current     *)
(* stage's mapping does not hold invokes no pass, raises no error and      *)
(* leaves the running representation unchanged, and the loop goes on to    *)
(* the next token; a mode made of IET-only tokens returns the input        *)
(* clusters unchanged.                                                     *)
(***************************************************************************)
C8_StageIsolationSkip == [] C8_IetOnlyMode /\ [][C8_SkipStep]_vars

\* 'openmp' was skipped by the cluster stage and the token after it ran.
C8_Witness ==
    /\ IsCustom /\ ClustersReturned
    /\ mode = <<"openmp", "cse">>
    /\ clusters = <<"cse">>
    /\ Len(StageCalls("clusters")) = 1

\* The eleven passes of the Base cluster pipeline, as C9 lists them.
C9_BaseOrder ==
    <<"fuse(toposort=True)", "cire('invariants')", "Lift", "Blocking",
      "extract_increments", "cire('sops')", "factorize", "optimize_pows",
      "cse", "fuse", "eliminate_arrays">>

(***************************************************************************)
(* C9 Base cluster pipeline order: when CPU64Operator._specialize_clusters *)
(* returns it has invoked exactly these eleven passes, in this order, each *)
(* on the output of the one before; while it runs it has invoked a prefix  *)
(* of them.                                                                *)
(***************************************************************************)
C9_BaseClusterPipeline ==
    strategy \in {"Base", "OpenMP"} =>
        LET log == Flatten(FnsOf(StageCalls("clusters")))
        IN  /\ Len(log) <= Len(C9_BaseOrder)
            /\ log = SubSeq(C9_BaseOrder, 1, Len(log))
            /\ \A k \in DOMAIN StageCalls("clusters") :
                   StageCalls("clusters")[k].outcome = "ok"
                   => SubSeq(clusters, 1, k) = SubSeq(C9_BaseOrder, 1, k)
            /\ ClustersReturned =>
                   /\ log = C9_BaseOrder
                   /\ clusters = C9_BaseOrder

\* The Base cluster pipeline has returned.
C9_Witness ==
    /\ strategy = "Base" /\ pc = "iet"
    /\ Len(clusters) = 11
    /\ clusters[4] = "Blocking" /\ clusters[10] = "fuse"

WithoutBlocking(ss) == SelectSeq(ss, LAMBDA f : f # "Blocking")

Position(ss, f) == CHOOSE k \in DOMAIN ss : ss[k] = f

(***************************************************************************)
(* C10 FSG defers blocking: the FSG cluster pipeline invokes the passes of *)
(* the Base cluster pipeline in the same relative order, except that       *)
(* Blocking comes last, after eliminate_arrays; in Base, Blocking comes    *)
(* right after Lift and before extract_increments and every flop-reduction *)
(* pass; without Blocking the two pipelines are the same sequence.         *)
(***************************************************************************)
C10_FSGDefersBlocking ==
    LET base == Flatten(CPU64Operator_specialize_clusters)
        fsg == Flatten(Intel64FSGOperator_specialize_clusters)
    IN  /\ WithoutBlocking(base) = WithoutBlocking(fsg)
        /\ Len(base) = Len(fsg)
        /\ Len(WithoutBlocking(base)) = Len(base) - 1
        /\ Position(base, "Blocking") = Position(base, "Lift") + 1
        /\ \A f \in {"extract_increments", "cire('sops')", "factorize",
                     "optimize_pows", "cse"} :
               Position(base, "Blocking") < Position(base, f)
        /\ (IsFSG /\ ClustersReturned) =>
               /\ clusters = WithoutBlocking(base) \o <<"Blocking">>
               /\ Flatten(FnsOf(StageCalls("clusters"))) = clusters
               /\ clusters[Len(clusters) - 1] = "eliminate_arrays"
        /\ (strategy \in {"Base", "OpenMP"} /\ ClustersReturned) =>
               clusters = base

\* The FSG cluster pipeline has returned, Blocking last.
C10_Witness ==
    /\ strategy = "FSG" /\ pc = "iet"
    /\ Len(clusters) = 11
    /\ clusters[11] = "Blocking"

\* The pass functions invoked by the IET stage so far, in order.
IetLog == Flatten(FnsOf(StageCalls("iet")))

IsPrefix(s, t) == Len(s) <= Len(t) /\ s = SubSeq(t, 1, Len(s))

\* The OpenMP IET pipeline as C11 lists it, with or without MPI injection.
C11_OpenMPOrder(mpi) ==
    <<"avoid_denormals", "optimize_halospots">>
    \o (IF mpi THEN <<"mpiize">> ELSE <<>>)
    \o <<"relax_incr_dimensions", "make_simd", "make_parallel",
         "hoist_prodders", "place_definitions", "place_casts">>

(***************************************************************************)
(* C11 OpenMP IET pipeline is Base plus one step: for either value of the  *)
(* mpi option, a completed CPU64OpenMPOperator._specialize_iet has invoked *)
(* avoid_denormals, optimize_halospots, mpiize (only if mpi is set),       *)
(* relax_incr_dimensions, make_simd, make_parallel, hoist_prodders,        *)
(* place_definitions, place_casts, in this order (a prefix of it while it  *)
(* runs); without make_parallel this is the Base strategy's IET pipeline   *)
(* for the same options.                                                   *)
(***************************************************************************)
C11_OpenMPIetPipeline ==
    strategy = "OpenMP" =>
        /\ IsPrefix(IetLog, C11_OpenMPOrder(options["mpi"]))
        /\ pc = "done" =>
               /\ IetLog = C11_OpenMPOrder(options["mpi"])
               /\ graph = IetLog
               /\ SelectSeq(IetLog, LAMBDA f : f # "make_parallel")
                      = Flatten(_specialize_iet("Base", <<>>, options))
               /\ Len(IetLog) = Len(Flatten(_specialize_iet("Base", <<>>, options))) + 1

\* A completed OpenMP build with the mpi option set.
C11_Witness ==
    /\ strategy = "OpenMP" /\ pc = "done"
    /\ options["mpi"]
    /\ Len(graph) = 9
    /\ graph[3] = "mpiize" /\ graph[6] = "make_parallel"

\* The pass functions invoked by the cluster stage so far, in order.
ClustersLog == Flatten(FnsOf(StageCalls("clusters")))

(***************************************************************************)
(* C12 FSG+OpenMP composition: a build of Intel64FSGOpenMPOperator invokes *)
(* the cluster passes of the FSG strategy (Blocking last), then the IET    *)
(* passes of the OpenMP strategy (make_parallel included) for the same     *)
(* options, and its option normalization is FSG's: a requested min-storage *)
(* is rejected before any pass.                                            *)
(***************************************************************************)
C12_FSGOpenMPComposition ==
    strategy = "FSGOpenMP" =>
        /\ IsPrefix(ClustersLog, Flatten(Intel64FSGOperator_specialize_clusters))
        /\ ClustersReturned =>
               /\ ClustersLog = Flatten(_specialize_clusters("FSG"))
               /\ clusters = ClustersLog
               /\ clusters[Len(clusters)] = "Blocking"
        /\ IsPrefix(IetLog, Flatten(CPU64OpenMPOperator_specialize_iet(options)))
        /\ pc = "done" =>
               /\ IetLog = Flatten(_specialize_iet("OpenMP", <<>>, options))
               /\ graph = IetLog
               /\ NumInvocations("make_parallel") = 1
        /\ MinStorageRequested =>
               /\ pc \in {"normalize", "failed"}
               /\ NoPassInvoked
        /\ (~ MinStorageRequested /\ pc = "failed") => calls # <<>>

\* A completed FSG+OpenMP build.
C12_Witness ==
    /\ strategy = "FSGOpenMP" /\ pc = "done"
    /\ ~ options["openmp"]
    /\ clusters[11] = "Blocking"
    /\ NumInvocations("make_parallel") = 1

\* What C13 expects of an integer option: the supplied value when one was
\* supplied, the default otherwise.
C13_Expected(v, default) == IF v # PyNone THEN v ELSE PyInt(default)

C13_NormalizeStep ==
    pc = "normalize" =>
        /\ options'["blocklevels"] = C13_Expected(options["blocklevels"], 1)
        /\ options'["cire-repeats"].invariants
               = C13_Expected(options["cire-repeats-inv"], 1)
        /\ options'["cire-mincost"].invariants
               = C13_Expected(options["cire-mincost-inv"], 50)
        /\ options'["cire-repeats"].sops
               = C13_Expected(options["cire-repeats-sops"], 5)
        /\ options'["cire-mincost"].sops
               = C13_Expected(options["cire-mincost-sops"], 10)
        /\ DOMAIN options' \cap ScalarCireKeys = {}
        /\ \A k \in {"mpi", "openmp", "min-storage"} :
               /\ k \in DOMAIN options' <=> k \in DOMAIN options
               /\ k \in DOMAIN options => options'[k] = options[k]

(***************************************************************************)
(* C13 Option normalization fills only unset values: _normalize_kwargs     *)
(* leaves blocklevels at the supplied value, or 1 when none was supplied;  *)
(* the invariants category at repeats = supplied or 1 and mincost =        *)
(* supplied or 50; the sops category at repeats = supplied or 5 and        *)
(* mincost = supplied or 10; no supplied integer, 0 included, is replaced  *)
(* by a default; the four scalar keys are gone and mpi, openmp and         *)
(* min-storage are unchanged.                                              *)
(***************************************************************************)
C13_FillsOnlyUnset == [][C13_NormalizeStep]_vars

(***************************************************************************)
(* C14 Shared-memory parallel annotation in the fixed strategies: a        *)
(* completed build has invoked make_parallel exactly once in OpenMP and    *)
(* FSG+OpenMP whatever the openmp option is, and in Noop exactly once if   *)
(* the openmp option is set and never otherwise; Base and FSG never invoke *)
(* it; wherever it is invoked, mpiize has been invoked before it if the    *)
(* mpi option is set, and never after it, and the symbol placement comes   *)
(* after it.                                                               *)
(***************************************************************************)
C14_SharedMemoryAnnotation ==
    ~ IsCustom =>
        LET par == Invocations("make_parallel")
        IN  /\ Cardinality(par) <= 1
            /\ strategy \in {"Base", "FSG"} => par = {}
            /\ (strategy = "Noop" /\ ~ options["openmp"]) => par = {}
            /\ (pc = "done" /\ strategy \in {"OpenMP", "FSGOpenMP"}) =>
                   Cardinality(par) = 1
            /\ (pc = "done" /\ strategy = "Noop" /\ options["openmp"]) =>
                   Cardinality(par) = 1
            /\ \A k \in par :
                   /\ \A j \in Invocations("mpiize") : j < k
                   /\ options["mpi"] => Invocations("mpiize") # {}
                   /\ \A j \in Invocations("place_definitions")
                                 \cup Invocations("place_casts") : k < j
                   /\ pc = "done" => Invocations("place_definitions") # {}

\* A completed Noop build with both options set.
C14_Witness ==
    /\ strategy = "Noop" /\ pc = "done"
    /\ options["mpi"] /\ options["openmp"]
    /\ graph = <<"mpiize", "make_parallel", "place_definitions", "place_casts">>

\* The positions of the log at which `fn` was force-called.
ForcedInvocations(fn) ==
    {k \in Invocations(fn) : calls[k].via = "forced"}

\* The positions of the log of the calls made by the IET loop.
NamedIetInvocations ==
    {k \in DOMAIN calls : calls[k].stage = "iet" /\ calls[k].via = "named"}

(***************************************************************************)
(* C15 Forced passes of CustomOperator: mpiize is force-called only if     *)
(* 'mpi' is not in mode and the mpi option is set, make_parallel only if   *)
(* 'openmp' is not in mode and the openmp option is set (a token of mode   *)
(* is never force-invoked), each at most once and, in a completed build,   *)
(* exactly once when its condition holds; a force-call comes after every   *)
(* named IET call of mode, the forced mpiize before the forced             *)
(* make_parallel, and both before place_definitions.                       *)
(***************************************************************************)
C15_ForcedAfterNamed ==
    LET fmpi == ForcedInvocations("mpiize")
        fomp == ForcedInvocations("make_parallel")
        forced == {k \in DOMAIN calls : calls[k].via = "forced"}
    IN  /\ forced = fmpi \cup fomp
        /\ ~ IsCustom => forced = {}
        /\ fmpi # {} => ("mpi" \notin Range(mode) /\ options["mpi"])
        /\ fomp # {} => ("openmp" \notin Range(mode) /\ options["openmp"])
        /\ Cardinality(fmpi) <= 1 /\ Cardinality(fomp) <= 1
        /\ \A k \in forced :
               /\ \A j \in NamedIetInvocations : j < k
               /\ Cardinality(NamedIetInvocations)
                      = Len(PositionsIn(IetTokens, Len(mode)))
               /\ \A j \in Invocations("place_definitions") : k < j
        /\ \A k \in fmpi : \A j \in fomp : k < j
        /\ (IsCustom /\ pc = "done") =>
               /\ ("mpi" \notin Range(mode) /\ options["mpi"])
                      => Cardinality(fmpi) = 1
               /\ ("openmp" \notin Range(mode) /\ options["openmp"])
                      => Cardinality(fomp) = 1
               /\ \A k \in forced : \E j \in Invocations("place_definitions") : k < j

\* A completed custom build: the named IET pass, then both force-calls.
C15_Witness ==
    /\ IsCustom /\ pc = "done"
    /\ mode = <<"denormals", "cse">>
    /\ options["mpi"] /\ options["openmp"]
    /\ graph = <<"avoid_denormals", "mpiize", "make_parallel",
                 "place_definitions", "place_casts">>
    /\ ForcedInvocations("mpiize") = {3}
    /\ ForcedInvocations("make_parallel") = {4}

(***************************************************************************)
(* C16 Blocking implies relaxation: in every completed build, of any       *)
(* strategy and any valid custom mode, if the cluster stage invoked        *)
(* Blocking then the IET stage has invoked relax_incr_dimensions before    *)
(* the symbol placement; in CustomOperator the token 'blocking' is mapped  *)
(* to Blocking in the cluster stage and to relax_incr_dimensions in the    *)
(* IET stage, and both stages iterate the same mode, so the two are        *)
(* invoked equally often.                                                  *)
(***************************************************************************)
C16_BlockingImpliesRelaxation ==
    /\ "blocking" \in DOMAIN _make_clusters_passes_mapper
    /\ _make_clusters_passes_mapper["blocking"] = <<"Blocking">>
    /\ "blocking" \in DOMAIN _make_iet_passes_mapper
    /\ _make_iet_passes_mapper["blocking"] = <<"relax_incr_dimensions">>
    /\ (pc = "done" /\ Invocations("Blocking") # {}) =>
           /\ \E k \in Invocations("relax_incr_dimensions") :
                  /\ calls[k].stage = "iet"
                  /\ \A j \in Invocations("place_definitions") : k < j
           /\ \A k \in Invocations("Blocking") : calls[k].stage = "clusters"
    /\ (pc = "done" /\ IsCustom) =>
           /\ NumInvocations("Blocking") = Occurrences("blocking")
           /\ NumInvocations("relax_incr_dimensions") = Occurrences("blocking")

\* A completed custom build that named 'blocking' after an IET-only token.
C16_Witness ==
    /\ IsCustom /\ pc = "done"
    /\ mode = <<"simd", "blocking">>
    /\ clusters = <<"Blocking">>
    /\ graph = <<"make_simd", "relax_incr_dimensions",
                 "place_definitions", "place_casts">>

(***************************************************************************)
(* C17 Vocabulary and mappings agree: the keys of the cluster-stage and    *)
(* IET-stage mappings together are exactly the 14 known passes, so no      *)
(* mapped pass is out of reach of a valid mode, and 'blocking' is the only *)
(* key of both; in a completed custom build every token of mode has        *)
(* invoked a pass in at least one of the two stages.                       *)
(***************************************************************************)
C17_VocabularyMatchesMappings ==
    /\ DOMAIN _make_clusters_passes_mapper \cup DOMAIN _make_iet_passes_mapper
           = KnownPasses
    /\ DOMAIN _make_clusters_passes_mapper \cap DOMAIN _make_iet_passes_mapper
           = {"blocking"}
    /\ Cardinality(KnownPasses) = Len(_known_passes)
    /\ (IsCustom /\ pc = "done") =>
           \A k \in DOMAIN mode :
               \E j \in DOMAIN calls :
                   /\ calls[j].via = "named"
                   /\ calls[j].at = k
                   /\ calls[j].stage \in {"clusters", "iet"}

\* A completed custom build with a cluster-only and an IET-only token.
C17_Witness ==
    /\ IsCustom /\ pc = "done"
    /\ mode = <<"lift", "prodders">>
    /\ clusters = <<"cire('invariants')", "Lift">>
    /\ graph = <<"hoist_prodders", "place_definitions", "place_casts">>

====
